---- MODULE Spec2Model ----
(***************************************************************************)
(* Model of the HAP C++ bridging layer of esp32-homekit: Characteristic,   *)
(* its typed bridges (String / Float / Int) with functional composition,   *)
(* and Accessory (register_accessory, init_callback, add_service).         *)
(*                                                                         *)
(* Every operation is one atomic action (the layer is single threaded and  *)
(* has no suspension points).  The calls an operation makes to the host    *)
(* and to user closures are recorded, in order, in `trace`, which holds    *)
(* the events of the most recent operation only.                           *)
(***************************************************************************)
EXTENDS Integers, Sequences, FiniteSets, TLC

\* ------------------------------------------------------------------ bounds
\* register_accessory calls in one run (over all accessories)
MaxRegister == 2
\* add_service calls made by subclass code outside the init() hook
MaxAddService == 1
\* add_service calls made by one run of the init() hook
MaxHookServices == 1
\* characteristics in one add_service batch
MaxBatch == 2
\* register_for_notifications calls in one run (over all characteristics)
MaxListeners == 1
\* register_for_notifications calls in one run of the dispatch scenario
MaxDispatchListeners == 2

\* bits of an int and of a void* on the target (both 32 there; the model
\* keeps the two widths equal and scales them down)
IntBits == 16

\* nullptr
NULL == 0

\* ------------------------------------------------------- the program's objects
Accs == {"a1", "a2"}

\* The characteristics of the run: functional characteristics with the
\* four combinations of supplier / consumer presence.  The typed bridge they
\* derive from (StringFunctionCharacteristic, FloatFunctionCharacteristic,
\* IntFunctionCharacteristic) is chosen when the run starts.
Chars == {"cRW", "cRO", "cWO", "cNone"}
Kinds == {"string", "float", "int"}

\* FunctionCharacteristic::readFunction is set (not an empty std::function)
HasReadFunction(c) == c \in {"cRW", "cRO"}

\* FunctionCharacteristic::writeFunction is set
HasWriteFunction(c) == c \in {"cRW", "cWO"}

\* ------------------------------------------------------------------ state
VARIABLES
    kind,                    \* the typed bridge of the run's characteristics
    hap_initialized,         \* Accessory::hap_initialized (static)
    accessory_handle,        \* Accessory::accessory_handle, per accessory
    accessory_object,        \* Accessory::accessory_object, per accessory
    ch_accessory_handle,     \* Characteristic::accessory_handle: [set, h]
    event_handle,            \* Characteristic::event_handle
    value_changed_listeners, \* Characteristic::value_changed_listeners
    value,                   \* the value behind readFunction / writeFunction
    valid_values_source,     \* the list behind get_valid_values_override
    hostEventing,            \* host: its most recent event-enable request
    pendingCallbacks,        \* host: callbacks registered and not yet fired
    services,                \* host: services submitted, per calling accessory
    hostStructs,             \* host: the callback tables it has received
    hapInitCalls,            \* host: number of hap_init() calls
    nRegister,               \* host: number of hap_accessory_register calls
    nAddService,             \* add_service calls made outside the init hook
    heapLive,                \* arrays allocated by add_service and not freed
    alive,                   \* FALSE once the process has aborted
    lastOp,                  \* the most recent operation and its result
    trace                    \* the events of the most recent operation

vars == <<kind, hap_initialized, accessory_handle, accessory_object,
          ch_accessory_handle, event_handle, value_changed_listeners, value,
          valid_values_source, hostEventing, pendingCallbacks, services, hostStructs, hapInitCalls, nRegister, nAddService,
          heapLive, alive, lastOp, trace>>

\* which typed bridge characteristic c derives from
Kind(c) == kind

\* get_valid_values_override(): <<present, values>>.  FloatCharacteristic
\* always answers (false, {}); the other bridges inherit the virtual default,
\* which a concrete characteristic may override.
get_valid_values_override(c) ==
    CASE Kind(c) = "float" -> <<FALSE, <<>>>>
      [] c \in {"cRW", "cRO", "cWO"} -> <<TRUE, valid_values_source[c].data>>
      [] OTHER -> <<FALSE, <<>>>>

\* the list a concrete characteristic's override is written to return
ValidValues(c) ==
    CASE c = "cRW" -> <<3, 5>>
      [] c = "cRO" -> <<>>
      [] c = "cWO" -> <<4>>
      [] OTHER -> <<>>

\* the address of the buffer of c's list, as an array id (the arrays
\* get_characteristic_struct allocates have the positive ids of their slots)
SourceArray(c) ==
    CASE c = "cRW" -> -1
      [] c = "cRO" -> -2
      [] c = "cWO" -> -3
      [] OTHER -> -4

\* text a string supplier may hold / the host may write
Texts == {"Kitchen Light", "Hall"}
\* what a read through a dangling pointer may yield besides the old bytes
Garbage == "<garbage>"

\* what the backing value of each characteristic is when the run starts
InitValue(c) ==
    CASE Kind(c) = "string" -> "Kitchen Light"
      [] Kind(c) = "float" -> 21500      \* thousandths: 21.5
      [] OTHER -> 2

\* ------------------------------------------------------------------ events
\* One step an operation takes: ev names it, c the characteristic (or the
\* accessory), n a number (payload word, count, array id), h an accessory
\* handle, e an event handle or accessory object, t a text.
Ev(ev, c, n, h, e, t) == [ev |-> ev, c |-> c, n |-> n, h |-> h, e |-> e, t |-> t]

\* positions of the events named ev in trace tr
Positions(tr, ev) == {i \in 1..Len(tr) : tr[i].ev = ev}

\* ------------------------------------------------------------------ payloads
\* The erased void* payload: a word w for scalars; for text, an address
\* (addr # "") and whether the storage it points to is still alive.
Scalar(n) == [w |-> n, addr |-> "", live |-> TRUE]
Pointer(addr, live) == [w |-> NULL, addr |-> addr, live |-> live]
NoPayload == Scalar(NULL)

\* C round(): to nearest, halves away from zero; x is in thousandths and the
\* result is round(x / 10)
RoundDiv10(x) == IF x >= 0 THEN (x + 5) \div 10 ELSE -((5 - x) \div 10)

\* the range of int
IntMin == -(2 ^ (IntBits - 1))
IntMax == 2 ^ (IntBits - 1) - 1

\* reinterpret_cast<void*>(int): the address with the bit pattern of v
intToVoid(v) == v % (2 ^ IntBits)

\* the address taken as a number, the sign bit ignored
voidToInt_unsigned(w) == w

\* reinterpret_cast<int>(void*): the int with the bit pattern of w
voidToInt(w) == IF w >= 2 ^ (IntBits - 1) THEN w - 2 ^ IntBits ELSE w

\* FloatCharacteristic::floatToVoid, floats in thousandths:
\* static_cast<int>(round(value * 100.0f)), then the cast to void*
floatToVoid(f) == intToVoid(RoundDiv10(f))

\* voidToFloat without its division by 100.0f
voidToFloat_unscaled(w) == voidToInt(w) * 1000

\* FloatCharacteristic::voidToFloat, floats in thousandths:
\* the cast to int, then intValue / 100.0f
voidToFloat(w) == voidToInt(w) * 10

\* ------------------------------------------------- capability probes, read
\* XFunctionCharacteristic::canRead: readFunction != nullptr
canRead(c) == HasReadFunction(c)

\* XFunctionCharacteristic::canWrite: writeFunction != nullptr
canWrite(c) == HasWriteFunction(c)

\* StringCharacteristic::read: readString() yields a temporary std::string,
\* c_str() points into it, and the temporary is destroyed when the return
\* statement's full expression ends: the address returned is that of
\* storage that is no longer alive.
StringRead(c) == Pointer("temporary", FALSE)

\* Characteristic::read, by bridge; v is the value the supplier returns.
\* Calling an empty readFunction throws std::bad_function_call.
read(c, v) ==
    IF ~HasReadFunction(c)
    THEN [thrown |-> TRUE, p |-> NoPayload,
          tr |-> <<Ev("read", c, NULL, NULL, NULL, "")>>]
    ELSE [thrown |-> FALSE,
          tr |-> <<Ev("read", c, NULL, NULL, NULL, "")>>,
          p |-> CASE Kind(c) = "string" -> StringRead(c)
                  [] Kind(c) = "float" -> Scalar(floatToVoid(v))
                  [] OTHER -> Scalar(intToVoid(v))]

\* the calls value_changed makes to the listeners ls, in order
ListenerCalls(c, ls) ==
    SelectSeq([i \in 1..Len(ls) |-> Ev("listener", c, i, NULL, NULL, "")],
              LAMBDA e : ls[e.n])

\* value_changed that calls its listeners before it answers the host
value_changed_listeners_first(c, p, back, eh, ls) ==
    <<Ev("value_changed", c, p.w, NULL, eh, "")>>
    \o ListenerCalls(c, ls)
    \o (IF eh # NULL
        THEN <<Ev("hap_event_response", c, p.w,
                  IF back.set THEN back.h ELSE -1, eh, "")>>
        ELSE <<>>)

\* value_changed that answers the host whatever the event handle is
value_changed_unconditional(c, p, back, eh, ls) ==
    <<Ev("value_changed", c, p.w, NULL, eh, ""),
      Ev("hap_event_response", c, p.w,
         IF back.set THEN back.h ELSE -1, eh, "")>>
    \o ListenerCalls(c, ls)

\* Characteristic::value_changed(new_value): the events it causes.
\* back = the characteristic's accessory_handle, eh its event_handle.
value_changed(c, p, back, eh, ls) ==
    <<Ev("value_changed", c, p.w, NULL, eh, "")>>
    \o (IF eh # NULL
        THEN <<Ev("hap_event_response", c, p.w,
                  IF back.set THEN back.h ELSE -1, eh, "")>>
        ELSE <<>>)
    \o ListenerCalls(c, ls)

\* notify() without its canRead() test
notify_unguarded(c, v, back, eh, ls) ==
    LET Dispatch(r) == r.tr \o value_changed(c, r.p, back, eh, ls)
    IN  Dispatch(read(c, v))

\* Characteristic::notify(): the events it causes
notify(c, v, back, eh, ls) ==
    IF ~canRead(c) THEN <<>>
    ELSE LET Dispatch(r) == r.tr \o value_changed(c, r.p, back, eh, ls)
         IN  Dispatch(read(c, v))

\* write() that applies the value and forgets value_changed
write_silent(c, p, text, back, eh, ls) ==
    LET typed == CASE Kind(c) = "string" -> text
                   [] Kind(c) = "float" -> voidToFloat(p.w)
                   [] OTHER -> voidToInt(p.w)
    IN  [thrown |-> ~HasWriteFunction(c),
         value |-> typed,
         tr |-> <<Ev("write", c, p.w, NULL, NULL, ""),
                  Ev("writeTyped", c,
                     IF Kind(c) = "string" THEN NULL ELSE typed, NULL, NULL,
                     IF Kind(c) = "string" THEN typed ELSE "")>>]

\* XCharacteristic::write(value, len): the typed write, then value_changed.
\* p is the payload, text what p points to (string bridge only).
\* Result: the new backing value and the events.
write(c, p, text, back, eh, ls) ==
    LET typed == CASE Kind(c) = "string" -> text
                   [] Kind(c) = "float" -> voidToFloat(p.w)
                   [] OTHER -> voidToInt(p.w)
    IN  [thrown |-> ~HasWriteFunction(c),
         value |-> typed,
         tr |-> <<Ev("write", c, p.w, NULL, NULL, "")>>
                \o IF ~HasWriteFunction(c) THEN <<>>
                   ELSE <<Ev("writeTyped", c,
                             IF Kind(c) = "string" THEN NULL ELSE typed,
                             NULL, NULL,
                             IF Kind(c) = "string" THEN typed ELSE "")>>
                        \o value_changed(c, p, back, eh, ls)]

\* set_event_handle that stores the handle whatever enable says
set_event_handle_forced(handle, enable) == handle

\* Characteristic::set_event_handle(handle, enable)
set_event_handle(handle, enable) == IF enable THEN handle ELSE NULL

\* ------------------------------------------------------- transfer structures
\* the array pointer of a transfer structure: id = NULL is nullptr
NoArray == [id |-> NULL, data |-> <<>>]

\* the valid-value pointer aimed at the buffer of the list itself
CopyValidValues_aliased(c, i, data) == [id |-> SourceArray(c), data |-> data]

\* valid_values_dyn = new int[size]; memcpy(valid_values_dyn, data, ...):
\* a fresh array, the one of slot i, holding a copy of data
CopyValidValues(c, i, data) == [id |-> i, data |-> data]

\* Characteristic::get_characteristic_struct() for the characteristic in
\* slot i of a batch.  The valid-value copy is allocated first (new int[n]
\* is never null, also for n = 0); the initializer list then calls read()
\* whatever canRead() says.  Result: the structure cs, the array allocated
\* (as a sequence of ids), the events, and whether read() threw.
get_characteristic_struct(c, i, v) ==
    LET Build(vv, r) ==
          [thrown |-> r.thrown,
           allocs |-> IF vv[1] THEN <<i>> ELSE <<>>,
           tr |-> (IF vv[1] THEN <<Ev("new", c, i, NULL, NULL, "")>>
                   ELSE <<>>)
                  \o r.tr
                  \o (IF r.thrown THEN <<>>
                      ELSE <<Ev("struct", c, i, NULL, NULL, "")>>),
           cs |-> [type |-> Kind(c),
                   initial_value |-> r.p,
                   context |-> c,
                   read |-> canRead(c),
                   write |-> canWrite(c),
                   event |-> TRUE,
                   override_max_value |-> FALSE,
                   override_min_value |-> FALSE,
                   override_valid_values |-> vv[1],
                   valid_values_count |-> IF vv[1] THEN Len(vv[2]) ELSE 0,
                   valid_values |-> IF vv[1] THEN CopyValidValues(c, i, vv[2])
                                    ELSE NoArray]]
    IN  Build(get_valid_values_override(c), read(c, v))

\* Characteristic::delete_characteristic_struct_internals(cs): the events
delete_characteristic_struct_internals(cs) ==
    IF cs.override_valid_values /\ cs.valid_values.id # NULL
    THEN <<Ev("delete", cs.context, cs.valid_values.id, NULL, NULL, "")>>
    ELSE <<>>

\* add_service, first loop: characteristic->accessory_handle = accessory_handle
AssignBack_skipped(back, c, h) == back

AssignBack(back, c, h) == [back EXCEPT ![c] = [set |-> TRUE, h |-> h]]

\* the first loop with its two statements swapped: the structure is built
\* before the back-reference is assigned
RECURSIVE BuildStructs_build_first(_, _, _, _, _)
BuildStructs_build_first(batch, i, h, vals, st) ==
    IF i > Len(batch) \/ st.thrown THEN st
    ELSE LET Step(c, g) ==
               [thrown |-> g.thrown,
                back |-> AssignBack(st.back, c, h),
                cs |-> IF g.thrown THEN st.cs ELSE Append(st.cs, g.cs),
                allocs |-> st.allocs \o g.allocs,
                tr |-> st.tr \o g.tr \o <<Ev("assign", c, i, h, NULL, "")>>]
         IN  BuildStructs_build_first(batch, i + 1, h, vals,
               Step(batch[i],
                    get_characteristic_struct(batch[i], i, vals[batch[i]])))

\* the first loop of add_service, from slot i on: assign the back-reference,
\* then build the transfer structure; an exception ends the loop.
\* st = [thrown, back, cs, allocs, tr]
RECURSIVE BuildStructs(_, _, _, _, _)
BuildStructs(batch, i, h, vals, st) ==
    IF i > Len(batch) \/ st.thrown THEN st
    ELSE LET Step(c, g) ==
               [thrown |-> g.thrown,
                back |-> AssignBack(st.back, c, h),
                cs |-> IF g.thrown THEN st.cs ELSE Append(st.cs, g.cs),
                allocs |-> st.allocs \o g.allocs,
                tr |-> st.tr \o <<Ev("assign", c, i, h, NULL, "")>> \o g.tr]
         IN  BuildStructs(batch, i + 1, h, vals,
               Step(batch[i],
                    get_characteristic_struct(batch[i], i, vals[batch[i]])))

\* the second loop of add_service: release each structure's array
RECURSIVE ReleaseStructs(_, _)
ReleaseStructs(cs, j) ==
    IF j > Len(cs) THEN <<>>
    ELSE delete_characteristic_struct_internals(cs[j])
         \o ReleaseStructs(cs, j + 1)

\* ids of the arrays in allocs that the events tr do not delete
Unreleased(allocs, tr) ==
    {k \in 1..Len(allocs) :
        \A x \in 1..Len(tr) : ~(tr[x].ev = "delete" /\ tr[x].n = allocs[k])}

\* the lists after the delete[] calls of the events tr: a list whose own
\* buffer was passed to delete[] is gone
ReleaseEffect(src, tr) ==
    [c \in Chars |->
        IF \E x \in 1..Len(tr) :
              tr[x].ev = "delete" /\ tr[x].n = SourceArray(c)
        THEN [data |-> <<>>, freed |-> TRUE]
        ELSE src[c]]

\* Accessory::add_service(service_type, characteristics) of an accessory
\* whose handle is h and whose object is obj.  Result: whether it threw,
\* the back-references, the service the host received (as a sequence of at
\* most one), the arrays left allocated, the events.
add_service(h, obj, batch, back, vals) ==
    LET Submit(b, rel) ==
          [thrown |-> FALSE, back |-> b.back,
           submitted |-> <<[kind |-> "user", handle |-> h, object |-> obj,
                            chars |-> b.cs]>>,
           liveArrays |-> Cardinality(Unreleased(b.allocs, rel)),
           liveCs |-> 0,
           tr |-> b.tr
                  \o <<Ev("hap_service_and_characteristics_ex_add", "host",
                          Len(b.cs), h, obj, "")>>
                  \o rel
                  \o <<Ev("delete[]", "hap_cs", Len(batch), NULL, NULL, "")>>]
        Finish(b) ==
          IF b.thrown
          THEN [thrown |-> TRUE, back |-> b.back, submitted |-> <<>>,
                liveArrays |-> Len(b.allocs), liveCs |-> 1, tr |-> b.tr]
          ELSE Submit(b, ReleaseStructs(b.cs, 1))
    IN  Finish(BuildStructs(batch, 1, h, vals,
                 [thrown |-> FALSE, back |-> back, cs |-> <<>>,
                  allocs |-> <<>>,
                  tr |-> <<Ev("new[]", "hap_cs", Len(batch), NULL, NULL, "")>>]))

\* --------------------------------------------------------------- Accessory
\* register_accessory() that tests the flag and never sets it
register_accessory_unlatched(a, inited, fresh) ==
    [hap_initialized |-> inited,
     accessory_handle |-> fresh,
     tr |-> (IF ~inited THEN <<Ev("hap_init", a, NULL, NULL, NULL, "")>>
             ELSE <<>>)
            \o <<Ev("hap_accessory_register", a, NULL, fresh, NULL, "")>>]

\* Accessory::register_accessory(); inited = hap_initialized, fresh = the
\* handle hap_accessory_register returns
register_accessory(a, inited, fresh) ==
    [hap_initialized |-> TRUE,
     accessory_handle |-> fresh,
     tr |-> (IF ~inited THEN <<Ev("hap_init", a, NULL, NULL, NULL, "")>>
             ELSE <<>>)
            \o <<Ev("hap_accessory_register", a, NULL, fresh, NULL, "")>>]

\* host: hap_accessory_add(handle), the accessory object of a handle
hap_accessory_add(h) == h

\* the array cs[] of init_callback: six hap_characteristic entries
InfoCharacteristics ==
    <<[type |-> "IDENTIFY", context |-> "", read |-> TRUE,
       write |-> FALSE, event |-> FALSE],
      [type |-> "MANUFACTURER", context |-> "", read |-> FALSE,
       write |-> FALSE, event |-> FALSE],
      [type |-> "MODEL", context |-> "", read |-> FALSE,
       write |-> FALSE, event |-> FALSE],
      [type |-> "NAME", context |-> "", read |-> FALSE,
       write |-> FALSE, event |-> FALSE],
      [type |-> "SERIAL_NUMBER", context |-> "", read |-> FALSE,
       write |-> FALSE, event |-> FALSE],
      [type |-> "FIRMWARE_REVISION", context |-> "", read |-> FALSE,
       write |-> FALSE, event |-> FALSE]>>

\* Accessory::init(), the user hook: it calls add_service for each batch
\* of `batches` from position k on; an exception ends it.
\* st = [thrown, back, submitted, liveArrays, liveCs, tr]
RECURSIVE init(_, _, _, _, _, _)
init(h, obj, batches, k, vals, st) ==
    IF k > Len(batches) \/ st.thrown THEN st
    ELSE LET Step(r) ==
               [thrown |-> r.thrown,
                back |-> r.back,
                submitted |-> st.submitted \o r.submitted,
                liveArrays |-> st.liveArrays + r.liveArrays,
                liveCs |-> st.liveCs + r.liveCs,
                tr |-> st.tr \o r.tr]
         IN  init(h, obj, batches, k + 1, vals,
                  Step(add_service(h, obj, batches[k], st.back, vals)))

\* init_callback as it would be were the handle one field shared by all
\* accessories, holding what the first registration returned
init_callback_shared_handle(a, h, batches, back, vals) ==
    LET Run(obj) ==
          [accessory_object |-> obj,
           r |-> init(1, obj, batches, 1, vals,
                   [thrown |-> FALSE, back |-> back,
                    submitted |-> <<[kind |-> "info", handle |-> 1,
                                     object |-> obj,
                                     chars |-> InfoCharacteristics]>>,
                    liveArrays |-> 0, liveCs |-> 0,
                    tr |-> <<Ev("hap_accessory_add", a, NULL, 1, obj, ""),
                             Ev("hap_service_and_characteristics_add", a,
                                Len(InfoCharacteristics), 1, obj, "")>>])]
    IN  Run(hap_accessory_add(1))

\* Accessory::init_callback() of an accessory whose handle is h
init_callback(a, h, batches, back, vals) ==
    LET Run(obj) ==
          [accessory_object |-> obj,
           r |-> init(h, obj, batches, 1, vals,
                   [thrown |-> FALSE, back |-> back,
                    submitted |-> <<[kind |-> "info", handle |-> h,
                                     object |-> obj,
                                     chars |-> InfoCharacteristics]>>,
                    liveArrays |-> 0, liveCs |-> 0,
                    tr |-> <<Ev("hap_accessory_add", a, NULL, h, obj, ""),
                             Ev("hap_service_and_characteristics_add", a,
                                Len(InfoCharacteristics), h, obj, "")>>])]
    IN  Run(hap_accessory_add(h))

\* ------------------------------------------------------------------ inputs
\* sequences over S of length at most n
RECURSIVE SeqsUpTo(_, _)
SeqsUpTo(S, n) ==
    IF n = 0 THEN {<<>>}
    ELSE LET shorter == SeqsUpTo(S, n - 1)
         IN  shorter \cup {Append(q, x) : q \in shorter, x \in S}

\* the characteristic lists user code may pass to add_service
Batches == SeqsUpTo(Chars, MaxBatch)

\* the characteristic lists the services of the init() hooks hold
HookBatches == {<<"cRW">>, <<"cRO", "cWO">>}

\* the accessories of the runs that carry characteristic traffic
TrafficAccs == {"a1"}

\* the add_service calls one run of an init() hook makes
Hooks == SeqsUpTo(HookBatches, MaxHookServices)

\* event handles the host passes to the event-enable function
EventHandles == {NULL, 1}

\* payload words the host writes to a scalar characteristic
WriteWords(c) == IF Kind(c) = "float" THEN {2150, 2000} ELSE {2, 3}

\* host: what it keeps of a service it received (the call's arguments)
ServiceRecord(sv) ==
    [kind |-> sv.kind, handle |-> sv.handle, object |-> sv.object,
     n |-> Len(sv.chars)]

\* host: what it keeps of a transfer structure (context, callbacks)
CallbackTable(cs) ==
    [context |-> cs.context, read |-> cs.read, write |-> cs.write,
     event |-> cs.event]

\* host: the callback tables of the services submitted
CallbackTables(submitted) ==
    UNION {{CallbackTable(submitted[k].chars[j])
               : j \in 1..Len(submitted[k].chars)}
           : k \in 1..Len(submitted)}

\* host: the services as it records them
ServiceRecords(submitted) ==
    [k \in 1..Len(submitted) |-> ServiceRecord(submitted[k])]

\* the callback tables the host holds for characteristic c
HostStructs(c) == {s \in hostStructs : s.context = c}

\* listeners registered so far, over all characteristics
ListenerCount ==
    Cardinality(UNION {{<<c, i>> : i \in 1..Len(value_changed_listeners[c])}
                       : c \in Chars})

\* the most recent operation: its name, the accessory or characteristic it
\* was called on, the payload passed or returned, what the host found at a
\* text address, whether a write repeated the previous value, whether an
\* exception escaped, and the services it submitted to the host
NoOp == [op |-> "none", a |-> "", c |-> "", ret |-> NoPayload, seen |-> "",
         same |-> FALSE, thrown |-> FALSE, submitted |-> <<>>]

\* ------------------------------------------------------------------ Init
Init ==
    /\ kind \in Kinds
    /\ hap_initialized = FALSE
    /\ accessory_handle = [a \in Accs |-> NULL]
    /\ accessory_object = [a \in Accs |-> NULL]
    /\ ch_accessory_handle = [c \in Chars |-> [set |-> FALSE, h |-> NULL]]
    /\ event_handle = [c \in Chars |-> NULL]
    /\ value_changed_listeners = [c \in Chars |-> <<>>]
    /\ value = [c \in Chars |-> InitValue(c)]
    /\ valid_values_source =
           [c \in Chars |-> [data |-> ValidValues(c), freed |-> FALSE]]
    /\ hostEventing = [c \in Chars |-> [handle |-> NULL, enable |-> FALSE]]
    /\ pendingCallbacks = [a \in Accs |-> 0]
    /\ services = [a \in Accs |-> <<>>]
    /\ hostStructs = {}
    /\ hapInitCalls = 0
    /\ nRegister = 0
    /\ nAddService = 0
    /\ heapLive = [arrays |-> 0, cs |-> 0]
    /\ alive = TRUE
    /\ lastOp = NoOp
    /\ trace = <<>>

\* ------------------------------------------------------------------ actions
\* user code: accessory a's register_accessory()
RegisterAccessory(a) ==
    /\ alive
    /\ nRegister < MaxRegister
    /\ \E r \in {register_accessory(a, hap_initialized, nRegister + 1)} :
           /\ hap_initialized' = r.hap_initialized
           /\ accessory_handle' = [accessory_handle EXCEPT ![a] = r.accessory_handle]
           /\ hapInitCalls' =
                  hapInitCalls
                  + Cardinality(Positions(r.tr, "hap_init"))
           /\ trace' = r.tr
    /\ UNCHANGED <<valid_values_source, hostEventing>>
    /\ nRegister' = nRegister + 1
    /\ pendingCallbacks' = [pendingCallbacks EXCEPT ![a] = @ + 1]
    /\ lastOp' = [NoOp EXCEPT !.op = "register_accessory", !.a = a]
    /\ UNCHANGED <<kind, accessory_object, ch_accessory_handle, event_handle,
                   value_changed_listeners, value, services, hostStructs,
                   nAddService, heapLive, alive>>

\* host: accessory_init(arg) -> accessory a's init_callback(), whose init()
\* hook adds the services of `hook`.  An exception that escapes either is
\* caught by the caller or ends the process.
InitCallback(a, hook) ==
    /\ alive
    /\ pendingCallbacks[a] > 0
    /\ \E cb \in {init_callback(a, accessory_handle[a], hook,
                                  ch_accessory_handle, value)} :
           /\ accessory_object' = [accessory_object EXCEPT ![a] = cb.accessory_object]
           /\ ch_accessory_handle' = cb.r.back
           /\ services' = [services EXCEPT
                             ![a] = @ \o ServiceRecords(cb.r.submitted)]
           /\ hostStructs' = hostStructs \cup CallbackTables(cb.r.submitted)
           /\ heapLive' = [arrays |-> heapLive.arrays + cb.r.liveArrays,
                           cs |-> heapLive.cs + cb.r.liveCs]
           /\ alive' \in (IF cb.r.thrown THEN {TRUE, FALSE} ELSE {TRUE})
           /\ lastOp' = [NoOp EXCEPT !.op = "init_callback", !.a = a,
                                     !.thrown = cb.r.thrown,
                                     !.submitted = cb.r.submitted]
           /\ trace' = cb.r.tr
           /\ valid_values_source' = ReleaseEffect(valid_values_source, cb.r.tr)
    /\ UNCHANGED hostEventing
    /\ pendingCallbacks' = [pendingCallbacks EXCEPT ![a] = @ - 1]
    /\ UNCHANGED <<kind, hap_initialized, accessory_handle, event_handle,
                   value_changed_listeners, value, hapInitCalls, nRegister,
                   nAddService>>

\* subclass code: accessory a's add_service(type, batch), called from
\* anywhere but the init() hook (add_service is protected and unguarded)
AddService(a, batch) ==
    /\ alive
    /\ nAddService < MaxAddService
    /\ \E r \in {add_service(accessory_handle[a], accessory_object[a],
                               batch, ch_accessory_handle, value)} :
           /\ ch_accessory_handle' = r.back
           /\ services' = [services EXCEPT
                             ![a] = @ \o ServiceRecords(r.submitted)]
           /\ hostStructs' = hostStructs \cup CallbackTables(r.submitted)
           /\ heapLive' = [arrays |-> heapLive.arrays + r.liveArrays,
                           cs |-> heapLive.cs + r.liveCs]
           /\ alive' \in (IF r.thrown THEN {TRUE, FALSE} ELSE {TRUE})
           /\ lastOp' = [NoOp EXCEPT !.op = "add_service", !.a = a,
                                     !.thrown = r.thrown,
                                     !.submitted = r.submitted]
           /\ trace' = r.tr
           /\ valid_values_source' = ReleaseEffect(valid_values_source, r.tr)
    /\ UNCHANGED hostEventing
    /\ nAddService' = nAddService + 1
    /\ UNCHANGED <<kind, hap_initialized, accessory_handle, accessory_object,
                   event_handle, value_changed_listeners, value,
                   pendingCallbacks, hapInitCalls, nRegister>>

\* user code: characteristic c's notify()
Notify(c) ==
    /\ alive
    /\ trace' = notify(c, value[c], ch_accessory_handle[c], event_handle[c],
                       value_changed_listeners[c])
    /\ lastOp' = [NoOp EXCEPT !.op = "notify", !.c = c]
    /\ UNCHANGED <<valid_values_source, hostEventing>>
    /\ UNCHANGED <<kind, hap_initialized, accessory_handle, accessory_object,
                   ch_accessory_handle, event_handle, value_changed_listeners,
                   value, pendingCallbacks, services, hapInitCalls, nRegister,
                   nAddService, heapLive, alive, hostStructs>>

\* user code: register_for_notifications(callback); cb = the callback is
\* a non-empty std::function
RegisterForNotifications(c, cb) ==
    /\ alive
    /\ value_changed_listeners' =
           [value_changed_listeners EXCEPT ![c] = Append(@, cb)]
    /\ lastOp' = [NoOp EXCEPT !.op = "register_for_notifications", !.c = c]
    /\ trace' = <<>>
    /\ UNCHANGED <<valid_values_source, hostEventing>>
    /\ UNCHANGED <<kind, hap_initialized, accessory_handle, accessory_object,
                   ch_accessory_handle, event_handle, value, pendingCallbacks,
                   services, hapInitCalls, nRegister, nAddService, heapLive,
                   alive, hostStructs>>

\* host: read_characteristic(arg), through a non-null read pointer of a
\* transfer structure it holds.  `seen` is what the host finds at the
\* address returned: reading storage that is no longer alive is undefined,
\* it may find the old bytes or anything else.
ReadCharacteristic(c, seen) ==
    /\ alive
    /\ \E s \in HostStructs(c) : s.read
    /\ \E r \in {read(c, value[c])} :
           /\ seen \in (IF r.p.addr = "" THEN {""}
                         ELSE IF r.p.live THEN {value[c]}
                         ELSE {value[c], Garbage})
           /\ lastOp' = [NoOp EXCEPT !.op = "read", !.c = c, !.ret = r.p,
                                     !.seen = seen, !.thrown = r.thrown]
           /\ trace' = r.tr
    /\ UNCHANGED <<valid_values_source, hostEventing>>
    /\ UNCHANGED <<kind, hap_initialized, accessory_handle, accessory_object,
                   ch_accessory_handle, event_handle, value_changed_listeners,
                   value, pendingCallbacks, services, hapInitCalls, nRegister,
                   nAddService, heapLive, alive, hostStructs>>

\* host: write_characteristic(arg, value, len), through a non-null write
\* pointer of a transfer structure it holds
WriteCharacteristic(c, p, text) ==
    /\ alive
    /\ \E s \in HostStructs(c) : s.write
    /\ \E r \in {write(c, p, text, ch_accessory_handle[c],
                         event_handle[c], value_changed_listeners[c])} :
           /\ value' = [value EXCEPT ![c] = r.value]
           /\ lastOp' = [NoOp EXCEPT !.op = "write", !.c = c, !.ret = p,
                                     !.same = (r.value = value[c]),
                                     !.thrown = r.thrown]
           /\ trace' = r.tr
    /\ UNCHANGED <<valid_values_source, hostEventing>>
    /\ UNCHANGED <<kind, hap_initialized, accessory_handle, accessory_object,
                   ch_accessory_handle, event_handle, value_changed_listeners,
                   pendingCallbacks, services, hostStructs, hapInitCalls, nRegister,
                   nAddService, heapLive, alive>>

\* host: set_characteristic_event_handle(arg, event_handle, enable),
\* through the event pointer of a transfer structure it holds
SetCharacteristicEventHandle(c, handle, enable) ==
    /\ alive
    /\ \E s \in HostStructs(c) : s.event
    /\ event_handle' = [event_handle EXCEPT ![c] = set_event_handle(handle, enable)]
    /\ hostEventing' = [hostEventing EXCEPT
                           ![c] = [handle |-> handle, enable |-> enable]]
    /\ lastOp' = [NoOp EXCEPT !.op = "set_event_handle", !.c = c]
    /\ trace' = <<>>
    /\ UNCHANGED valid_values_source
    /\ UNCHANGED <<kind, hap_initialized, accessory_handle, accessory_object,
                   ch_accessory_handle, value_changed_listeners, value,
                   pendingCallbacks, services, hostStructs, hapInitCalls, nRegister,
                   nAddService, heapLive, alive>>

\* user code: the state behind c's supplier closure changes, so that
\* readFunction() returns v from now on
SetValue(c, v) ==
    /\ alive
    /\ HasReadFunction(c)
    /\ v # value[c]
    /\ value' = [value EXCEPT ![c] = v]
    /\ lastOp' = [NoOp EXCEPT !.op = "set_value", !.c = c]
    /\ trace' = <<>>
    /\ UNCHANGED <<kind, hap_initialized, accessory_handle, accessory_object,
                   ch_accessory_handle, event_handle, value_changed_listeners,
                   valid_values_source, hostEventing, pendingCallbacks,
                   services, hostStructs, hapInitCalls, nRegister,
                   nAddService, heapLive, alive>>

\* The whole layer: user code and the host call every operation.  One
\* accessory is registered, once; its characteristics then carry the
\* host's reads, writes and event-enable calls and the user's notify() and
\* register_for_notifications().
Next ==
    \/ \E a \in TrafficAccs :
          accessory_handle[a] = NULL /\ RegisterAccessory(a)
    \/ \E a \in TrafficAccs, hook \in Hooks : InitCallback(a, hook)
    \/ \E a \in TrafficAccs, batch \in HookBatches : AddService(a, batch)
    \/ \E c \in Chars : Notify(c)
    \/ \E c \in Chars, cb \in BOOLEAN :
          ListenerCount < MaxListeners /\ RegisterForNotifications(c, cb)
    \/ \E c \in Chars, seen \in Texts \cup {"", Garbage} :
          ReadCharacteristic(c, seen)
    \/ \E c \in Chars :
          IF Kind(c) = "string"
          THEN \E text \in Texts : WriteCharacteristic(c, Pointer("host", TRUE), text)
          ELSE \E w \in WriteWords(c) : WriteCharacteristic(c, Scalar(w), "")
    \/ \E c \in Chars, handle \in EventHandles, enable \in BOOLEAN :
          SetCharacteristicEventHandle(c, handle, enable)

Spec == Init /\ [][Next]_vars

\* Accessory bring-up alone (registration, the host's callbacks, services
\* added by subclass code), with every batch of at most MaxBatch
\* characteristics.
NextBringUp ==
    \/ \E a \in Accs : RegisterAccessory(a)
    \/ \E a \in Accs, hook \in Hooks : InitCallback(a, hook)
    \/ \E a \in Accs, batch \in Batches : AddService(a, batch)

SpecBringUp == Init /\ [][NextBringUp]_vars

\* values a supplier may return: ints at and around the ends of the range
\* and zero; floats (in thousandths) on and off the 0.01 grid, of both signs
CodecValues ==
    CASE kind = "string" -> Texts
      [] kind = "float" -> {21500, 21504, 21495, 290, 0, -5, -21500, -21510}
      [] OTHER -> {IntMin, -2, -1, 0, 2, IntMax}

\* payload words the host may write: small ones, the two at the sign bit,
\* the largest, and the word it was last handed by a read
CodecWords ==
    {2, 2000, 2150, 2 ^ (IntBits - 1) - 1, 2 ^ (IntBits - 1), 2 ^ IntBits - 1}
    \cup (IF lastOp.op = "read" THEN {lastOp.ret.w} ELSE {})

\* The codecs of the typed bridges: one accessory brought up with one
\* service holding a readable and writable characteristic, whose value the
\* user changes and the host reads and writes.
NextCodec ==
    \/ accessory_handle["a1"] = NULL /\ RegisterAccessory("a1")
    \/ InitCallback("a1", <<<<"cRW">>>>)
    \/ \E v \in CodecValues : SetValue("cRW", v)
    \/ \E seen \in Texts \cup {"", Garbage} : ReadCharacteristic("cRW", seen)
    \/ IF kind = "string"
       THEN \E text \in Texts :
               WriteCharacteristic("cRW", Pointer("host", TRUE), text)
       ELSE \E w \in CodecWords : WriteCharacteristic("cRW", Scalar(w), "")

SpecCodec == Init /\ [][NextCodec]_vars

\* Value-changed dispatch: one accessory brought up with one service
\* holding a readable and writable characteristic, on which the user
\* registers listeners and calls notify() and the host enables and
\* disables eventing and writes.
NextDispatch ==
    \/ accessory_handle["a1"] = NULL /\ RegisterAccessory("a1")
    \/ InitCallback("a1", <<<<"cRW">>>>)
    \/ \E cb \in BOOLEAN :
          ListenerCount < MaxDispatchListeners
          /\ RegisterForNotifications("cRW", cb)
    \/ Notify("cRW")
    \/ IF kind = "string"
       THEN \E text \in Texts :
               WriteCharacteristic("cRW", Pointer("host", TRUE), text)
       ELSE \E w \in WriteWords("cRW") :
               WriteCharacteristic("cRW", Scalar(w), "")
    \/ \E handle \in EventHandles, enable \in BOOLEAN :
          SetCharacteristicEventHandle("cRW", handle, enable)

SpecDispatch == Init /\ [][NextDispatch]_vars

\* ================================================================== claims
\* positions in the trace of the most recent operation of the events named ev
At(ev) == {i \in 1..Len(trace) : trace[i].ev = ev}

\* the listeners of characteristic c that are non-empty std::functions
Callable(c) ==
    {i \in 1..Len(value_changed_listeners[c]) : value_changed_listeners[c][i]}

\* the most recent operation was not an add_service call on an accessory
\* that has no accessory object yet
OnReadyAccessory ==
    lastOp.op = "add_service" => accessory_object[lastOp.a] # NULL

\* no service has reached the host from an accessory without its object
NoEarlyService ==
    \A a \in Accs : \A k \in 1..Len(services[a]) : services[a][k].object # NULL

\* C1: over any sequence of register_accessory calls on any accessories,
\* hap_init() has been called at most once, exactly once as soon as a handle
\* has been requested, and within the call that makes it, before
\* hap_accessory_register.
C1_HapInitExactlyOnce ==
    /\ hapInitCalls <= 1
    /\ (nRegister > 0 => hapInitCalls = 1)
    /\ hap_initialized = (hapInitCalls = 1)
    /\ \A i \in At("hap_init") : \A j \in At("hap_accessory_register") : i < j

\* two accessories are registered, one call each
C1_Witness ==
    /\ nRegister = 2
    /\ accessory_handle["a1"] # NULL
    /\ accessory_handle["a2"] # NULL
    /\ hapInitCalls = 1

\* C2 (as claimed): every user service an accessory has submitted to the host
\* comes after that accessory's accessory-information service with its six
\* characteristics, and a callback whose init() hook adds no service leaves
\* the accessory with exactly that one service.
C2_InfoServiceBeforeUserServices ==
    \A a \in Accs :
        /\ \A k \in 1..Len(services[a]) :
              services[a][k].kind = "user"
              => \E j \in 1..(k - 1) :
                    services[a][j].kind = "info" /\ services[a][j].n = 6
        /\ (/\ lastOp.op = "init_callback" /\ lastOp.a = a
            /\ ~lastOp.thrown /\ Len(lastOp.submitted) = 1
            /\ nRegister = 1)
           => (Len(services[a]) = 1 /\ services[a][1].n = 6)

\* C3 (as claimed): whenever add_service submits a batch to the host, the
\* accessory handle and the accessory object it passes have been assigned
\* (the accessory is Ready).
C3_AddServiceOnlyWhenReady ==
    \A i \in At("hap_service_and_characteristics_ex_add") :
        trace[i].h # NULL /\ trace[i].e # NULL

\* C4 (as claimed): read() is never invoked on a characteristic whose
\* canRead() is false, nor write() on one whose canWrite() is false (stated
\* for the operations on accessories that are Ready, the init() hook's
\* add_service calls among them).
C4_NoAbsentCapabilityInvoked ==
    OnReadyAccessory =>
        /\ \A i \in At("read") : canRead(trace[i].c)
        /\ \A i \in At("write") : canWrite(trace[i].c)

\* C5: a write applies the decoded value through the typed write and then
\* makes exactly one value_changed dispatch: at most one host event, and one
\* call of each non-empty listener, whether or not the value changed.
C5_WriteDispatchesExactlyOnce ==
    lastOp.op = "write" =>
        /\ Cardinality(At("writeTyped")) = 1
        /\ Cardinality(At("value_changed")) = 1
        /\ \A i \in At("writeTyped") : \A j \in At("value_changed") :
              /\ i < j
              /\ IF Kind(lastOp.c) = "string"
                 THEN value[lastOp.c] = trace[i].t
                 ELSE /\ value[lastOp.c] = trace[i].n
                      /\ trace[j].n = lastOp.ret.w
                      /\ trace[i].n = IF Kind(lastOp.c) = "float"
                                      THEN voidToFloat(lastOp.ret.w)
                                      ELSE voidToInt(lastOp.ret.w)
        /\ Cardinality(At("hap_event_response")) <= 1
        /\ \A k \in Callable(lastOp.c) :
              Cardinality({i \in At("listener") : trace[i].n = k}) = 1
        /\ Cardinality(At("listener")) = Cardinality(Callable(lastOp.c))
        /\ \A i \in At("listener") \cup At("hap_event_response") :
              \A j \in At("value_changed") : j < i

\* a write of the value the characteristic already holds, with a listener
\* registered and eventing enabled
C5_Witness ==
    /\ lastOp.op = "write"
    /\ lastOp.same
    /\ Callable(lastOp.c) # {}
    /\ event_handle[lastOp.c] # NULL
    /\ At("hap_event_response") # {}

\* C6: notify() calls the registered listeners exactly when canRead() is
\* true, and no operation calls hap_event_response for a characteristic whose
\* event handle is null.
C6_NotifyIffCanRead ==
    /\ lastOp.op = "notify" =>
          \A k \in Callable(lastOp.c) :
              (\E i \in At("listener") : trace[i].n = k) <=> canRead(lastOp.c)
    /\ \A i \in At("hap_event_response") :
          /\ event_handle[trace[i].c] # NULL
          /\ trace[i].e = event_handle[trace[i].c]

\* notify() on a readable characteristic that has a listener and no event
\* handle: the listener is called, the host is not
C6_Witness ==
    /\ lastOp.op = "notify"
    /\ canRead(lastOp.c)
    /\ event_handle[lastOp.c] = NULL
    /\ At("listener") # {}
    /\ At("hap_event_response") = {}

\* C7 (as claimed): every valid-value array an add_service call allocates is
\* released exactly once, after the host call, and none stays allocated
\* (stated for add_service calls on an accessory that is Ready).
C7_ValidValuesReleasedExactlyOnce ==
    (lastOp.op = "add_service" /\ OnReadyAccessory) =>
        /\ \A i \in At("new") :
              /\ Cardinality({j \in At("delete") : trace[j].n = trace[i].n}) = 1
              /\ \A j \in At("delete") :
                    \E k \in At("hap_service_and_characteristics_ex_add") : k < j

\* C8 (as claimed): value_changed is never invoked on a characteristic whose
\* accessory-handle back-reference has not been assigned.
C8_NoValueChangedBeforeBackReference ==
    \A i \in At("value_changed") : ch_accessory_handle[trace[i].c].set

\* C8 (amended): hap_event_response is never called for a characteristic
\* whose accessory-handle back-reference has not been assigned; the handle it
\* passes is the one add_service assigned.
C8_NoHostEventBeforeBackReference ==
    \A i \in At("hap_event_response") :
        /\ ch_accessory_handle[trace[i].c].set
        /\ trace[i].h = ch_accessory_handle[trace[i].c].h

\* a dispatch that reaches the host
C8_Witness ==
    /\ lastOp.op \in {"notify", "write"}
    /\ At("hap_event_response") # {}
    /\ ch_accessory_handle[lastOp.c].set

\* C9 (as claimed): the address a textual read() returns is that of storage
\* still alive, and the host finds the characteristic's text there (stated
\* for runs in which every service was added to a Ready accessory).
C9_TextAddressValid ==
    (lastOp.op = "read" /\ Kind(lastOp.c) = "string" /\ NoEarlyService) =>
        /\ lastOp.ret.live
        /\ lastOp.seen = value[lastOp.c]

\* C10 (as claimed): every characteristic passed to add_service gets a
\* transfer structure whose read pointer is set exactly when a read supplier
\* was given and whose write pointer exactly when a write consumer was
\* (stated for add_service calls on an accessory that is Ready).
C10_PointersMirrorClosures ==
    (lastOp.op = "add_service" /\ OnReadyAccessory) =>
        \A i \in At("assign") :
            /\ Len(lastOp.submitted) = 1
            /\ trace[i].n <= Len(lastOp.submitted[1].chars)
            /\ LET cs == lastOp.submitted[1].chars[trace[i].n]
               IN  /\ cs.context = trace[i].c
                   /\ cs.read = HasReadFunction(trace[i].c)
                   /\ cs.write = HasWriteFunction(trace[i].c)

\* the transfer structures of the user services the most recent operation
\* submitted to the host
SubmittedStructs ==
    UNION {{lastOp.submitted[k].chars[j]
               : j \in 1..Len(lastOp.submitted[k].chars)}
           : k \in {x \in 1..Len(lastOp.submitted)
                        : lastOp.submitted[x].kind = "user"}}

\* C11: in every transfer structure submitted, a present valid-value
\* override gives an array of its own with the count and the contents of
\* the override's list, an absent one gives count 0 and a null array; and
\* after the structures are built and released every list is as it was
\* written, its buffer not freed.
C11_ValidValuesCopied ==
    /\ \A cs \in SubmittedStructs :
          IF get_valid_values_override(cs.context)[1]
          THEN /\ cs.override_valid_values
               /\ cs.valid_values_count = Len(ValidValues(cs.context))
               /\ cs.valid_values.data = ValidValues(cs.context)
               /\ cs.valid_values.id # NULL
          ELSE /\ ~cs.override_valid_values
               /\ cs.valid_values_count = 0
               /\ cs.valid_values = NoArray
    /\ \A c \in Chars :
          /\ ~valid_values_source[c].freed
          /\ valid_values_source[c].data = ValidValues(c)

\* an add_service call on a Ready accessory that built and released a
\* structure with a two-element valid-value array
C11_Witness ==
    /\ lastOp.op = "add_service"
    /\ accessory_object[lastOp.a] # NULL
    /\ ~lastOp.thrown
    /\ \E cs \in SubmittedStructs : cs.valid_values_count = 2
    /\ At("delete") # {}

\* positions in the events tr of the back-reference assignments of c
Assigns(tr, c) == {i \in 1..Len(tr) : tr[i].ev = "assign" /\ tr[i].c = c}

\* C12 (as claimed): over the add_service calls of accessories that are
\* Ready, a characteristic's back-reference is written at most once: one
\* call writes it once, and once it holds an accessory's handle no later
\* call writes it again or changes it.
C12_BackReferenceAssignedOnce ==
    [][OnReadyAccessory' =>
          \A c \in Chars :
              /\ Cardinality(Assigns(trace', c)) <= 1
              /\ (ch_accessory_handle[c].set /\ ch_accessory_handle[c].h # NULL)
                 => /\ Assigns(trace', c) = {}
                    /\ ch_accessory_handle'[c] = ch_accessory_handle[c]]_vars

\* a host write that hands back the payload the read just before it returned
WritesBackRead ==
    /\ lastOp.op = "read" /\ ~lastOp.thrown
    /\ lastOp'.op = "write"
    /\ lastOp'.c = lastOp.c
    /\ lastOp'.ret = lastOp.ret

\* C13: floats in thousandths.  The payload read() returns for a value v on
\* the 0.01 grid is the integer v * 100 (as a two's complement word);
\* writing that payload back delivers a float within 0.005 of v; the
\* payload of 21.5 is 2150 and writing 2150 stores 21.5.
C13_FloatCodecRoundTrip ==
    /\ [](lastOp.op = "read" /\ kind = "float" /\ value[lastOp.c] % 10 = 0
          => LET k == value[lastOp.c] \div 10
             IN  /\ lastOp.ret.w = IF k >= 0 THEN k ELSE k + 2 ^ IntBits
                 /\ value[lastOp.c] = 21500 => lastOp.ret.w = 2150)
    /\ [](lastOp.op = "write" /\ kind = "float" /\ lastOp.ret.w = 2150
          => value[lastOp.c] = 21500)
    /\ [][WritesBackRead /\ kind = "float" /\ value[lastOp.c] % 10 = 0
          => /\ value'[lastOp.c] - value[lastOp.c] <= 5
             /\ value[lastOp.c] - value'[lastOp.c] <= 5]_vars

\* the host wrote 2150 to a float characteristic that already held 21.5
C13_Witness ==
    /\ lastOp.op = "write"
    /\ kind = "float"
    /\ lastOp.ret.w = 2150
    /\ lastOp.same
    /\ value[lastOp.c] = 21500

\* C14: writing back the payload an integer characteristic's read()
\* returned for the value v delivers exactly v to the typed write.
C14_IntCodecRoundTrip ==
    [][WritesBackRead /\ kind = "int"
       => /\ value'[lastOp.c] = value[lastOp.c]
          /\ \E i \in 1..Len(trace') :
                trace'[i].ev = "writeTyped" /\ trace'[i].n = value[lastOp.c]]_vars

\* the host wrote the payload of a negative value and the value is unchanged
C14_Witness ==
    /\ lastOp.op = "write"
    /\ kind = "int"
    /\ lastOp.same
    /\ value[lastOp.c] < 0
    /\ lastOp.ret.w >= 2 ^ (IntBits - 1)

\* C15: every event handle is null when the run starts and stays null
\* while the host's most recent event-enable call for the characteristic
\* (if any) did not say enable=true; and a step that changes an event
\* handle is the host's event-enable call for that characteristic.
C15_EventHandleFrame ==
    /\ \A c \in Chars : event_handle[c] = NULL
    /\ [](\A c \in Chars : event_handle[c] # NULL => hostEventing[c].enable)
    /\ [][\A c \in Chars :
            event_handle'[c] # event_handle[c]
            => lastOp'.op = "set_event_handle" /\ lastOp'.c = c]_vars

\* add_service has run while a characteristic's eventing was enabled, and
\* the event handle is still there
C15_Witness ==
    /\ lastOp.op = "add_service"
    /\ \E c \in Chars : event_handle[c] # NULL

\* the dispatch of the most recent operation called every non-empty
\* listener of its characteristic
ListenersCalled ==
    {trace[i].n : i \in At("listener")} = Callable(lastOp.c)

\* C17: every hap_event_response carries the non-null event handle of the
\* host's most recent event-enable call, which said enable=true, and the
\* accessory handle add_service assigned; while the most recent call said
\* enable=false or gave a null handle, a write or notify emits no host
\* event and still calls the listeners.
C17_HostEventCarriesCurrentHandles ==
    /\ \A i \in At("hap_event_response") :
          /\ hostEventing[trace[i].c].enable
          /\ hostEventing[trace[i].c].handle # NULL
          /\ trace[i].e = hostEventing[trace[i].c].handle
          /\ ch_accessory_handle[trace[i].c].set
          /\ trace[i].h = ch_accessory_handle[trace[i].c].h
    /\ (/\ lastOp.op \in {"write", "notify"}
        /\ ~lastOp.thrown
        /\ \/ ~hostEventing[lastOp.c].enable
           \/ hostEventing[lastOp.c].handle = NULL)
       => /\ At("hap_event_response") = {}
          /\ (lastOp.op = "write" \/ canRead(lastOp.c)) => ListenersCalled

\* a write after the host disabled eventing: a listener is called, the
\* host is not
C17_Witness ==
    /\ lastOp.op = "write"
    /\ hostEventing[lastOp.c] = [handle |-> 1, enable |-> FALSE]
    /\ At("listener") # {}
    /\ At("hap_event_response") = {}

\* C18: in the dispatch of a write or a notify the host event comes before
\* every listener call, the non-empty listeners are called once each in
\* the order they were registered, and no step removes or reorders the
\* listeners registered before it.
C18_DispatchOrder ==
    /\ [](lastOp.op \in {"write", "notify"} =>
            /\ \A i \in At("hap_event_response") : \A j \in At("listener") : i < j
            /\ \A i \in At("listener") : \A j \in At("listener") :
                  i < j => trace[i].n < trace[j].n
            /\ At("value_changed") # {} => ListenersCalled)
    /\ [][\A c \in Chars :
            /\ Len(value_changed_listeners'[c]) >= Len(value_changed_listeners[c])
            /\ \A k \in 1..Len(value_changed_listeners[c]) :
                  value_changed_listeners'[c][k] = value_changed_listeners[c][k]]_vars

\* a dispatch with eventing enabled and two non-empty listeners
C18_Witness ==
    /\ lastOp.op \in {"write", "notify"}
    /\ At("hap_event_response") # {}
    /\ Cardinality(At("listener")) = 2

\* the add_service call the event at position j belongs to, named by the
\* position of the new[] that opens it
CallOf(j) ==
    CHOOSE k \in At("new[]") :
        k <= j /\ \A m \in At("new[]") : m <= j => m <= k

\* positions of the host submissions of user services
Submissions == At("hap_service_and_characteristics_ex_add")

\* C16: in every add_service call, each characteristic's back-reference
\* is assigned before its transfer structure is built (its valid-value
\* copy, its read() for the initial value, the structure itself), the one
\* host submission comes after all the structures of the batch, and every
\* valid-value release comes after that submission.
C16_AddServiceOrder ==
    /\ \A j \in At("new") \cup At("struct") :
          \E k \in At("assign") :
              /\ k < j /\ CallOf(k) = CallOf(j)
              /\ trace[k].n = trace[j].n /\ trace[k].c = trace[j].c
    /\ lastOp.op \in {"add_service", "init_callback"} =>
          \A j \in At("read") :
              \E k \in At("assign") :
                  k < j /\ CallOf(k) = CallOf(j) /\ trace[k].c = trace[j].c
    /\ \A s \in Submissions :
          /\ \A t \in Submissions : CallOf(t) = CallOf(s) => t = s
          /\ \A j \in At("struct") : CallOf(j) = CallOf(s) => j < s
          /\ trace[s].n = trace[CallOf(s)].n
          /\ trace[s].n =
                Cardinality({j \in At("struct") : CallOf(j) = CallOf(s)})
    /\ \A d \in At("delete") :
          \E s \in Submissions : CallOf(s) = CallOf(d) /\ s < d

\* an add_service call on a Ready accessory with a batch of two, one of
\* them with a valid-value array to release
C16_Witness ==
    /\ lastOp.op = "add_service"
    /\ accessory_object[lastOp.a] # NULL
    /\ Cardinality(At("struct")) = 2
    /\ Cardinality(Submissions) = 1
    /\ At("delete") # {}

\* C19: the handle an accessory holds is the one its own registration
\* returned and differs from every other accessory's; a host callback asks
\* the host for the accessory object with that handle, keeps the object
\* returned, and submits every service, the accessory-information service
\* and those of the init() hook, with that handle and that object.
C19_CallbackUsesOwnAccessory ==
    /\ \A a \in Accs : \A b \in Accs \ {a} :
          accessory_handle[a] # NULL => accessory_handle[a] # accessory_handle[b]
    /\ lastOp.op = "register_accessory" =>
          \A i \in At("hap_accessory_register") :
              trace[i].h = accessory_handle[lastOp.a] /\ trace[i].h # NULL
    /\ lastOp.op = "init_callback" =>
          /\ accessory_handle[lastOp.a] # NULL
          /\ Cardinality(At("hap_accessory_add")) = 1
          /\ \A i \in At("hap_accessory_add") :
                /\ trace[i].h = accessory_handle[lastOp.a]
                /\ trace[i].e = accessory_object[lastOp.a]
          /\ \A i \in At("hap_service_and_characteristics_add") \cup Submissions :
                /\ trace[i].h = accessory_handle[lastOp.a]
                /\ trace[i].e = accessory_object[lastOp.a]
                /\ \A b \in Accs \ {lastOp.a} :
                      accessory_handle[b] # NULL =>
                          /\ trace[i].h # accessory_handle[b]
                          /\ trace[i].e # accessory_object[b]
          /\ \A k \in 1..Len(lastOp.submitted) :
                /\ lastOp.submitted[k].handle = accessory_handle[lastOp.a]
                /\ lastOp.submitted[k].object = accessory_object[lastOp.a]

\* the callback of the accessory registered first fires after the callback
\* of the one registered second, and its hook adds a user service
C19_Witness ==
    /\ lastOp.op = "init_callback"
    /\ lastOp.a = "a1"
    /\ accessory_handle["a1"] = 1
    /\ accessory_object["a2"] # NULL
    /\ Len(services["a2"]) > 0
    /\ Len(lastOp.submitted) = 2

====
